---- MODULE Spec2Model ----
(***************************************************************************)
(* Model of the family-tree layout engine of src/flat-tree.js:             *)
(* FamilyTreeLayout (constructor, buildRelationships, calculateGenerations,*)
(* buildFamilyUnits, calculateWidths, positionUnits/positionUnit,          *)
(* buildConnections) and the geometry computed by renderFlatTree and       *)
(* drawParentChildConnection / drawNephewConnection.                       *)
(*                                                                         *)
(* All coordinates are the integers the JavaScript numbers take: with the  *)
(* shipped LAYOUT every width is even, so every "/ 2" of the source is     *)
(* exact (HalvesExact below states it, and TLC checks it).                 *)
(***************************************************************************)
EXTENDS Integers, Sequences, FiniteSets, TLC

VARIABLES
  dataPeople,    \* data.people: the ids of the people handed to renderFlatTree
  people,        \* this.people: ids of the visible people, in insertion order
  families,      \* this.families: data.families
  hidden,        \* this.hidden: Set(data.hidden)
  childOf,       \* this.childOf: id -> index of the family it is a child of
  parentIn,      \* this.parentIn: id -> indices of the families it is a partner in
  generations,   \* this.generations: id -> generation
  queue,         \* calculateGenerations: the BFS queue of {id, gen}
  visited,       \* calculateGenerations: the visited set
  widths,        \* unit id -> {selfWidth, childrenWidth, totalWidth} set by calcWidth
  unitBand,      \* unit id -> the (x, y) positionUnit was called with
  positions,     \* this.positions: id -> {x, y, unitId}
  connections,   \* this.connections
  canvas,        \* renderFlatTree: container width and height
  drawn,         \* drawConnections: the levels computed for every connection
  threw,         \* TRUE once a step has raised a TypeError
  pc             \* position in renderFlatTree / calculateLayout

vars == << dataPeople, people, families, hidden, childOf, parentIn, generations, queue,
           visited, widths, unitBand, positions, connections, canvas, drawn,
           threw, pc >>

-----------------------------------------------------------------------------
(* LAYOUT, src/flat-tree.js:4-12 *)
personWidth == 58
personHeight == 78
coupleGap == -6
siblingGap == 8
familyGap == 35
generationGap == 90
padding == 15

(* the fixed drop below the parents, src/flat-tree.js:470 *)
dropOffset == 12
(* the extra canvas height, src/flat-tree.js:388 *)
extraHeight == 20

-----------------------------------------------------------------------------
(* helpers on sequences and functions *)
Range(s) == { s[i] : i \in DOMAIN s }

Max(a, b) == IF a >= b THEN a ELSE b

MinOf(S) == CHOOSE m \in S : \A n \in S : m <= n

MaxOf(S) == CHOOSE m \in S : \A n \in S : m >= n

(* Array.prototype.filter: the members of s that are in S, in order *)
Filter(s, S) == LET keep(x) == x \in S IN SelectSeq(s, keep)

(* the sequence s without the members of S *)
Without(s, S) == LET keep(x) == x \notin S IN SelectSeq(s, keep)

(* Map keys in insertion order: s without the repeats of a member *)
Dedup(s) ==
  LET firsts == { i \in DOMAIN s : \A j \in 1..(i - 1) : s[j] # s[i] }
      nth(k) == CHOOSE i \in firsts : Cardinality({ j \in firsts : j < i }) = k - 1
  IN IF Cardinality(firsts) = Len(s) THEN s
     ELSE [k \in 1..Cardinality(firsts) |-> s[nth(k)]]

-----------------------------------------------------------------------------
(* buildFamilyUnits, src/flat-tree.js:124-216: the unit tree, one record   *)
(* per unit; hasPartners tells a couple unit (unit.partners is set) from a *)
(* single unit (unit.single is set).                                       *)
NoId == "none"

Couple(p, kids) ==
  [hasPartners |-> TRUE, partners |-> p, single |-> NoId, childUnits |-> kids]

Single(s, kids) ==
  [hasPartners |-> FALSE, partners |-> << >>, single |-> s, childUnits |-> kids]

Units ==
  ("ham-popo" :> Couple(<<"X2", "X1">>, <<"yan-fun">>)) @@
    ("yan-fun" :> Couple(<<"F7", "M11">>, << >>)) @@
    ("peter-cora" :> Couple(<<"M7", "M8">>, <<"hong", "michelle">>)) @@
    ("hong" :> Single("M1", << >>)) @@
    ("michelle" :> Single("M9", << >>)) @@
    ("siukee" :> Couple(<<"X6">>, <<"rex">>)) @@
    ("rex" :> Single("M2", << >>)) @@
    ("yehyeh-mama" :> Couple(<<"X4", "X5">>,
                        <<"unclema-auntma", "ernest-amy", "gooma2", "gooma3">>)) @@
    ("unclema-auntma" :> Couple(<<"F3", "F2">>, <<"adrien-ada">>)) @@
    ("adrien-ada" :> Couple(<<"M3", "M4">>, <<"siah">>)) @@
    ("siah" :> Single("B3", << >>)) @@
    ("ernest-amy" :> Couple(<<"F5", "F6">>,
                        <<"stanley-angela", "wilfred-mary", "stewart-mae">>)) @@
    ("stanley-angela" :> Couple(<<"B1", "B2">>, << >>)) @@
    ("wilfred-mary" :> Couple(<<"B12", "B11">>, <<"zachary", "xavier", "sebastian">>)) @@
    ("zachary" :> Single("B6", << >>)) @@
    ("xavier" :> Single("B8", << >>)) @@
    ("sebastian" :> Single("B4", << >>)) @@
    ("stewart-mae" :> Couple(<<"B10", "B9">>, <<"kayley", "chloe">>)) @@
    ("kayley" :> Single("B5", << >>)) @@
    ("chloe" :> Single("B7", << >>)) @@
    ("gooma2" :> Single("F4", <<"ahfat">>)) @@
    ("ahfat" :> Single("M14", << >>)) @@
    ("gooma3" :> Single("X3", <<"keith-manyi", "cherry">>)) @@
    ("keith-manyi" :> Couple(<<"F1", "M6">>, <<"natalie">>)) @@
    ("natalie" :> Single("M10", << >>)) @@
    ("cherry" :> Single("M5", << >>))

UnitIds == DOMAIN Units

Roots == <<"ham-popo", "peter-cora", "siukee", "yehyeh-mama">>

(* the people a unit names *)
UnitPeople(u) ==
  IF Units[u].hasPartners THEN Range(Units[u].partners) ELSE {Units[u].single}

TreeIds == UNION { UnitPeople(u) : u \in UnitIds }

-----------------------------------------------------------------------------
(* buildRelationships, src/flat-tree.js:33-53 *)
RECURSIVE AddPartners(_, _, _, _)
AddPartners(pin, partners, idx, hid) ==
  IF partners = << >> THEN pin
  ELSE LET p == Head(partners)
           next == IF p \in hid THEN pin
                   ELSE IF p \in DOMAIN pin
                        THEN [pin EXCEPT ![p] = Append(@, idx)]
                        ELSE (p :> << idx >>) @@ pin
       IN AddPartners(next, Tail(partners), idx, hid)

RECURSIVE BuildChildOf(_, _)
BuildChildOf(fams, hid) ==
  IF fams = << >> THEN << >>
  ELSE LET idx == Len(fams)
           kids == { c \in Range(fams[idx].children) : c \notin hid }
       IN [c \in kids |-> idx] @@ BuildChildOf(SubSeq(fams, 1, idx - 1), hid)

RECURSIVE BuildParentIn(_, _)
BuildParentIn(fams, hid) ==
  IF fams = << >> THEN << >>
  ELSE LET idx == Len(fams)
       IN AddPartners(BuildParentIn(SubSeq(fams, 1, idx - 1), hid),
                      fams[idx].partners, idx, hid)

(* a constructor that indexes the hidden people too *)
IndexPeople_KeepHidden(list, hid) == Dedup(list)

(* constructor, src/flat-tree.js:15-31: the visible people in data order *)
IndexPeople(list, hid) == Dedup(Without(list, hid))

-----------------------------------------------------------------------------
(* The inputs: data.people, data.families, data.hidden.                    *)
MaxRun == 3
MaxFamilies == 2

Family(p, c) == [partners |-> p, children |-> c]

(* a full data set: every person of the unit tree, and "M12", a person no  *)
(* unit names                                                              *)
ShippedPeople ==
  << "X2", "X1", "F7", "M11", "M7", "M8", "M1", "M9", "X6", "M2", "X4", "X5",
     "F3", "F2", "M3", "M4", "B3", "F5", "F6", "B1", "B2", "B12", "B11", "B6",
     "B8", "B4", "B10", "B9", "B5", "B7", "F4", "M14", "X3", "F1", "M6", "M10",
     "M5", "M12" >>

ShippedFamilies ==
  << Family(<<"X2", "X1">>, <<"F6">>),
     Family(<<"M7", "M8">>, <<"M1", "M9">>),
     Family(<<"X6">>, <<"M2">>),
     Family(<<"X4", "X5">>, <<"F3", "F5", "F4", "X3">>),
     Family(<<"F3", "F2">>, <<"M4">>),
     Family(<<"F5", "F6">>, <<"B1", "B11", "B10">>),
     Family(<<"M3", "M4">>, <<"B3">>),
     Family(<<"B12", "B11">>, <<"B6", "B8", "B4">>),
     Family(<<"B10", "B9">>, <<"B5", "B7">>),
     Family(<<"X3">>, <<"M6", "M5">>),
     Family(<<"F1", "M6">>, <<"M10">>),
     Family(<<"F4">>, <<"M14">>) >>

(* small data sets: three people, or two of them (the families then name   *)
(* an id data.people does not have), and every list of at most MaxFamilies *)
(* families over the three, which gives chains, a child of two families,   *)
(* a family without partners and parent-child cycles                       *)
SmallPeopleLists == { << "M7", "M8", "M1" >>, << "M8", "M1" >> }

FamilyPool ==
  { Family(p, c) :
      p \in { << >>, <<"M7">>, <<"M8">>, <<"M1">>, <<"M7", "M8">> },
      c \in { <<"M1">>, <<"M8">>, <<"M8", "M1">> } }

FamilyLists == UNION { [1..n -> FamilyPool] : n \in 0..MaxFamilies }

(* data.hidden for the full data set: nothing, any one or two people, or *)
(* a run of at most MaxRun people that follow each other in data.people   *)
(* (a couple, a couple and its first child, siblings, ...)                *)
OneOrTwo(ids) == { {a, b} : a, b \in ids }

Runs(list) ==
  { { list[j] : j \in i..(i + n - 1) \cap DOMAIN list } :
      n \in 1..MaxRun, i \in DOMAIN list }

HiddenSets(list) == { {} } \cup OneOrTwo(Range(list)) \cup Runs(list)

-----------------------------------------------------------------------------
(* new FamilyTreeLayout(data), src/flat-tree.js:15-31 *)
Construct(data) ==
  /\ dataPeople = data.people
  /\ people = IndexPeople(data.people, data.hidden)
  /\ families = data.families
  /\ hidden = data.hidden
  /\ childOf = BuildChildOf(data.families, data.hidden)
  /\ parentIn = BuildParentIn(data.families, data.hidden)
  /\ generations = << >>
  /\ queue = << >>
  /\ visited = {}
  /\ widths = << >>
  /\ unitBand = << >>
  /\ positions = << >>
  /\ connections = << >>
  /\ canvas = [width |-> 0, height |-> 0]
  /\ drawn = << >>
  /\ threw = FALSE
  /\ pc = "constructed"

Init ==
  \/ \E h \in HiddenSets(ShippedPeople) :
       Construct([people |-> ShippedPeople, families |-> ShippedFamilies, hidden |-> h])
  \/ \E list \in SmallPeopleLists :
       \E f \in FamilyLists, h \in SUBSET Range(list) :
         Construct([people |-> list, families |-> f, hidden |-> h])

Visible == Range(people)

-----------------------------------------------------------------------------
(* calculateGenerations, src/flat-tree.js:56-95 *)

(* lines 57-69: the roots, the queue seeded with them, the empty visited set *)
GenStart ==
  /\ pc = "constructed"
  /\ LET roots == Without(people, DOMAIN childOf)
     IN queue' = [i \in 1..Len(roots) |-> [id |-> roots[i], gen |-> 0]]
  /\ visited' = {}
  /\ generations' = << >>
  /\ pc' = "bfs"
  /\ UNCHANGED << dataPeople, people, families, hidden, childOf, parentIn, widths, unitBand,
                  positions, connections, canvas, drawn, threw >>

(* a loop that pushes a child without asking this.people.has(childId) *)
RECURSIVE PushChildren_AnyChild(_, _, _)
PushChildren_AnyChild(kids, gen, seen) ==
  IF kids = << >> THEN << >>
  ELSE (IF Head(kids) \notin seen
        THEN << [id |-> Head(kids), gen |-> gen + 1] >>
        ELSE << >>) \o PushChildren_AnyChild(Tail(kids), gen, seen)

(* lines 79-86: the entries pushed for the children of the families of id *)
RECURSIVE PushChildren(_, _, _)
PushChildren(kids, gen, seen) ==
  IF kids = << >> THEN << >>
  ELSE (IF Head(kids) \notin seen /\ Head(kids) \in Visible
        THEN << [id |-> Head(kids), gen |-> gen + 1] >>
        ELSE << >>) \o PushChildren(Tail(kids), gen, seen)

RECURSIVE PushFamilies(_, _, _)
PushFamilies(fams, gen, seen) ==
  IF fams = << >> THEN << >>
  ELSE PushChildren(families[Head(fams)].children, gen, seen)
         \o PushFamilies(Tail(fams), gen, seen)

FamiliesOf(id) == IF id \in DOMAIN parentIn THEN parentIn[id] ELSE << >>

(* lines 72-73: an entry whose id is visited already is dropped *)
GenSkip ==
  /\ pc = "bfs"
  /\ queue # << >>
  /\ Head(queue).id \in visited
  /\ queue' = Tail(queue)
  /\ UNCHANGED << dataPeople, people, families, hidden, childOf, parentIn, generations,
                  visited, widths, unitBand, positions, connections, canvas,
                  drawn, threw, pc >>

(* lines 72-86: an unvisited id gets its generation and pushes its children *)
GenVisit ==
  /\ pc = "bfs"
  /\ queue # << >>
  /\ Head(queue).id \notin visited
  /\ LET id == Head(queue).id
         gen == Head(queue).gen
     IN /\ visited' = visited \cup {id}
        /\ generations' = (id :> gen) @@ generations
        /\ queue' = Tail(queue) \o PushFamilies(FamiliesOf(id), gen, visited \cup {id})
  /\ UNCHANGED << dataPeople, people, families, hidden, childOf, parentIn, widths, unitBand,
                  positions, connections, canvas, drawn, threw, pc >>

(* lines 89-94: the loop has ended; the people left get generation 0 *)
GenFinish ==
  /\ pc = "bfs"
  /\ queue = << >>
  /\ generations' = [id \in Visible |->
                       IF id \in DOMAIN generations THEN generations[id] ELSE 0]
  /\ pc' = "generations"
  /\ UNCHANGED << dataPeople, people, families, hidden, childOf, parentIn, queue, visited,
                  widths, unitBand, positions, connections, canvas, drawn, threw >>

-----------------------------------------------------------------------------
(* calculateWidths, src/flat-tree.js:219-248 *)

(* lines 222-228: a couple with exactly two visible partners is two cards  *)
(* and the couple gap wide, every other unit one card                      *)
SelfWidth(u) ==
  IF Units[u].hasPartners /\ Len(Filter(Units[u].partners, Visible)) = 2
  THEN personWidth * 2 + coupleGap
  ELSE personWidth

RECURSIVE TotalWidth(_)
RECURSIVE SumChildren(_, _)

(* a sum that forgets the sibling gaps *)
RECURSIVE SumChildren_NoGap(_, _)
SumChildren_NoGap(kids, i) ==
  IF i > Len(kids) THEN 0
  ELSE TotalWidth(kids[i]) + SumChildren_NoGap(kids, i + 1)

(* lines 232-237: the children's widths and a sibling gap before each but  *)
(* the first, summed over kids[i..]                                        *)
SumChildren(kids, i) ==
  IF i > Len(kids) THEN 0
  ELSE TotalWidth(kids[i]) + (IF i > 1 THEN siblingGap ELSE 0)
         + SumChildren(kids, i + 1)

(* lines 231-243 *)
ChildrenWidth(u) ==
  IF Len(Units[u].childUnits) > 0 THEN SumChildren(Units[u].childUnits, 1) ELSE 0

(* a unit as wide as its own people, whatever its children need *)
TotalWidth_SelfOnly(u) == SelfWidth(u)

(* lines 239-243 *)
TotalWidth(u) ==
  IF Len(Units[u].childUnits) > 0
  THEN Max(SelfWidth(u), ChildrenWidth(u))
  ELSE SelfWidth(u)

(* the units calcWidth reaches from the roots *)
RECURSIVE Subtree(_)
Subtree(u) == {u} \cup UNION { Subtree(c) : c \in Range(Units[u].childUnits) }

TreeUnits == UNION { Subtree(r) : r \in Range(Roots) }

CalculateWidths ==
  /\ pc = "generations"
  /\ widths' = [u \in TreeUnits |->
                  [selfWidth |-> SelfWidth(u),
                   childrenWidth |-> ChildrenWidth(u),
                   totalWidth |-> TotalWidth(u)]]
  /\ pc' = "widths"
  /\ UNCHANGED << dataPeople, people, families, hidden, childOf, parentIn, generations,
                  queue, visited, unitBand, positions, connections, canvas,
                  drawn, threw >>

-----------------------------------------------------------------------------
(* positionUnits / positionUnit, src/flat-tree.js:251-292 *)

(* a center that is the left edge of the band *)
CenterX_BandStart(u, x) == x

(* line 264 *)
CenterX(u, x) == x + widths[u].totalWidth \div 2

(* a unit left-aligned in its band *)
UnitStartX_LeftAligned(u, x) == x

(* line 265 *)
UnitStartX(u, x) == CenterX(u, x) - widths[u].selfWidth \div 2

(* line 284 *)
ChildBlockStart(u, x) == CenterX(u, x) - widths[u].childrenWidth \div 2

(* line 272: where the second partner of a couple is put *)
SecondPartnerX(startX) == startX + personWidth + coupleGap

(* lines 268-278: this.positions after the unit's own people are set *)
PlacePeople(u, x, y, pos) ==
  LET startX == UnitStartX(u, x)
      at(px) == [x |-> px, y |-> y, unitId |-> u]
      ids == Filter(Units[u].partners, Visible)
  IN IF Units[u].hasPartners
     THEN IF Len(ids) = 2
          THEN (ids[2] :> at(SecondPartnerX(startX))) @@ (ids[1] :> at(startX)) @@ pos
          ELSE IF Len(ids) = 1
               THEN (ids[1] :> at(startX)) @@ pos
               ELSE pos
     ELSE IF Units[u].single \in Visible
          THEN (Units[u].single :> at(startX)) @@ pos
          ELSE pos

(* what a call of positionUnit adds: the positions it sets and the band  *)
(* (x, y) of every unit it is called for; a later set() of an id replaces *)
(* an earlier one                                                         *)
Nothing == [positions |-> << >>, unitBand |-> << >>]

Then(earlier, later) ==
  [positions |-> later.positions @@ earlier.positions,
   unitBand |-> later.unitBand @@ earlier.unitBand]

RECURSIVE PositionUnit(_, _, _)
RECURSIVE PositionChildren(_, _, _, _)

(* lines 286-290: the children kids[i..], the cursor being at childX *)
PositionChildren(kids, i, childX, childY) ==
  IF i > Len(kids) THEN Nothing
  ELSE LET cx == IF i > 1 THEN childX + siblingGap ELSE childX
       IN Then(PositionUnit(kids[i], cx, childY),
               PositionChildren(kids, i + 1, cx + widths[kids[i]].totalWidth, childY))

(* lines 262-292 *)
PositionUnit(u, x, y) ==
  LET own == [positions |-> PlacePeople(u, x, y, << >>),
              unitBand |-> (u :> [x |-> x, y |-> y])]
  IN IF Len(Units[u].childUnits) > 0
     THEN Then(own, PositionChildren(Units[u].childUnits, 1, ChildBlockStart(u, x),
                                     y + generationGap))
     ELSE own

(* lines 255-259: the roots roots[i..], the cursor being at x *)
RECURSIVE PositionRoots(_, _)
PositionRoots(i, x) ==
  IF i > Len(Roots) THEN Nothing
  ELSE LET rx == IF i > 1 THEN x + familyGap ELSE x
       IN Then(PositionUnit(Roots[i], rx, padding),
               PositionRoots(i + 1, rx + widths[Roots[i]].totalWidth))

PositionUnits ==
  /\ pc = "widths"
  /\ LET res == PositionRoots(1, padding)
     IN /\ positions' = res.positions @@ positions
        /\ unitBand' = res.unitBand
  /\ pc' = "positions"
  /\ UNCHANGED << dataPeople, people, families, hidden, childOf, parentIn, generations,
                  queue, visited, widths, connections, canvas, drawn, threw >>

-----------------------------------------------------------------------------
(* buildConnections, src/flat-tree.js:294-340 *)

Tuple(p, c, t) == [parents |-> p, children |-> c, type |-> t]

(* lines 298-311 *)
familyConnections ==
  << Tuple(<<"X2", "X1">>, <<"F6">>, "normal"),
     Tuple(<<"M7", "M8">>, <<"M1", "M9">>, "normal"),
     Tuple(<<"X6">>, <<"M2">>, "normal"),
     Tuple(<<"X4", "X5">>, <<"F4", "F5", "X3">>, "normal"),
     Tuple(<<"F3", "F2">>, <<"M4">>, "normal"),
     Tuple(<<"F5", "F6">>, <<"B1", "B11", "B10">>, "normal"),
     Tuple(<<"M3", "M4">>, <<"B3">>, "normal"),
     Tuple(<<"B12", "B11">>, <<"B6", "B8", "B4">>, "normal"),
     Tuple(<<"B10", "B9">>, <<"B5", "B7">>, "normal"),
     Tuple(<<"X3">>, <<"M6", "M5">>, "normal"),
     Tuple(<<"F1", "M6">>, <<"M10">>, "normal"),
     Tuple(<<"F4">>, <<"M14">>, "dashed") >>

(* lines 314-316 *)
ParentPositions(conn) ==
  LET ids == Filter(conn.parents, DOMAIN positions)
  IN [i \in 1..Len(ids) |-> positions[ids[i]]]

(* lines 318-320 *)
ChildPositions(conn) ==
  LET ids == Filter(conn.children, DOMAIN positions)
  IN [i \in 1..Len(ids) |->
        [id |-> ids[i], x |-> positions[ids[i]].x, y |-> positions[ids[i]].y,
         unitId |-> positions[ids[i]].unitId]]

(* a test that asks for parents only *)
Emits_ParentsOnly(conn) == Len(ParentPositions(conn)) > 0

(* line 322 *)
Emits(conn) == Len(ParentPositions(conn)) > 0 /\ Len(ChildPositions(conn)) > 0

(* lines 313-330: the connections of the tuples tuples[i..] *)
RECURSIVE ParentChildConnections(_)
ParentChildConnections(i) ==
  IF i > Len(familyConnections) THEN << >>
  ELSE (IF Emits(familyConnections[i])
        THEN << [type |-> "parent-child",
                 style |-> familyConnections[i].type,
                 parents |-> ParentPositions(familyConnections[i]),
                 children |-> ChildPositions(familyConnections[i])] >>
        ELSE << >>) \o ParentChildConnections(i + 1)

(* lines 333-339 *)
NephewConnections ==
  IF "X1" \in DOMAIN positions /\ "F7" \in DOMAIN positions
  THEN << [type |-> "nephew", from |-> positions["X1"], to |-> positions["F7"]] >>
  ELSE << >>

BuildConnections ==
  /\ pc = "positions"
  /\ connections' = ParentChildConnections(1) \o NephewConnections
  /\ pc' = "laidOut"
  /\ UNCHANGED << dataPeople, people, families, hidden, childOf, parentIn, generations,
                  queue, visited, widths, unitBand, positions, canvas, drawn,
                  threw >>

-----------------------------------------------------------------------------
(* renderFlatTree, src/flat-tree.js:379-390: the size of the container *)
MaxX == MaxOf({0} \cup { positions[id].x + personWidth : id \in DOMAIN positions })

MaxY == MaxOf({0} \cup { positions[id].y + personHeight : id \in DOMAIN positions })

Render ==
  /\ pc = "laidOut"
  /\ canvas' = [width |-> MaxX + padding, height |-> MaxY + padding + extraHeight]
  /\ pc' = "rendered"
  /\ UNCHANGED << dataPeople, people, families, hidden, childOf, parentIn, generations,
                  queue, visited, widths, unitBand, positions, connections,
                  drawn, threw >>

-----------------------------------------------------------------------------
(* drawConnections, src/flat-tree.js:443-533: the levels of each connector *)

(* lines 461-466 *)
ParentCenterX(parents) ==
  IF Len(parents) = 2
  THEN (parents[1].x + parents[2].x + personWidth) \div 2 + coupleGap \div 2
  ELSE parents[1].x + personWidth \div 2

(* lines 467-474 *)
ParentChildLevels(conn) ==
  LET parentBottomY == conn.parents[1].y + personHeight
      dropY == parentBottomY + dropOffset
      childTopY == MinOf({ conn.children[i].y : i \in DOMAIN conn.children })
  IN [type |-> "parent-child",
      parentCenterX |-> ParentCenterX(conn.parents),
      parentBottomY |-> parentBottomY,
      dropY |-> dropY,
      childTopY |-> childTopY,
      barY |-> dropY + (childTopY - dropY) \div 2]

(* lines 520-525 *)
NephewLevels(conn) ==
  LET fromY == conn.from.y + personHeight
  IN [type |-> "nephew",
      fromX |-> conn.from.x + personWidth \div 2,
      fromY |-> fromY,
      toX |-> conn.to.x + personWidth \div 2,
      toY |-> conn.to.y,
      midY |-> fromY + (conn.to.y - fromY) \div 2]

(* parents[0].x of a connection without parents is a TypeError *)
Throws(conn) == conn.type = "parent-child" /\ Len(conn.parents) = 0

DrawConnections ==
  /\ pc = "rendered"
  /\ IF \E i \in DOMAIN connections : Throws(connections[i])
     THEN /\ threw' = TRUE
          /\ drawn' = << >>
     ELSE /\ threw' = FALSE
          /\ drawn' = [i \in DOMAIN connections |->
                         IF connections[i].type = "parent-child"
                         THEN ParentChildLevels(connections[i])
                         ELSE NephewLevels(connections[i])]
  /\ pc' = "done"
  /\ UNCHANGED << dataPeople, people, families, hidden, childOf, parentIn, generations,
                  queue, visited, widths, unitBand, positions, connections,
                  canvas >>

-----------------------------------------------------------------------------
Next ==
  \/ GenStart
  \/ GenSkip
  \/ GenVisit
  \/ GenFinish
  \/ CalculateWidths
  \/ PositionUnits
  \/ BuildConnections
  \/ Render
  \/ DrawConnections

Spec == Init /\ [][Next]_vars

(* every "/ 2" of the source divides an even number *)
HalvesExact ==
  /\ \A u \in DOMAIN widths :
       /\ widths[u].selfWidth % 2 = 0
       /\ widths[u].childrenWidth % 2 = 0
       /\ widths[u].totalWidth % 2 = 0
  /\ \A i \in DOMAIN connections :
       /\ connections[i].type = "parent-child" /\ Len(connections[i].parents) = 2
            => (connections[i].parents[1].x + connections[i].parents[2].x + personWidth) % 2 = 0
       /\ connections[i].type = "nephew"
            => (connections[i].to.y - (connections[i].from.y + personHeight)) % 2 = 0
  /\ \A i \in DOMAIN drawn :
       drawn[i].type = "parent-child" => (drawn[i].childTopY - drawn[i].dropY) % 2 = 0

-----------------------------------------------------------------------------
(* What the claims speak of, read from the input and the recorded state.   *)

(* visible: present in data.people and not in data.hidden *)
VisibleIds == Range(dataPeople) \ hidden

WidthsSet == pc \in {"widths", "positions", "laidOut", "rendered", "done"}

Positioned == pc \in {"positions", "laidOut", "rendered", "done"}

Connected == pc \in {"laidOut", "rendered", "done"}

Rendered == pc \in {"rendered", "done"}

GenerationsSet == pc \notin {"constructed", "bfs"}

Overlap(p, q) ==
  /\ positions[p].x < positions[q].x + personWidth
  /\ positions[q].x < positions[p].x + personWidth

SameRow(p, q) == positions[p].y = positions[q].y

SameUnit(p, q) == positions[p].unitId = positions[q].unitId

HasChildren(u) == Len(Units[u].childUnits) > 0

FirstChild(u) == Units[u].childUnits[1]

LastChild(u) == Units[u].childUnits[Len(Units[u].childUnits)]

(* the people of unit u that have a position *)
Placed(u) == { id \in DOMAIN positions : positions[id].unitId = u }

-----------------------------------------------------------------------------
(* C1, as stated: after calculateLayout() no two positioned people of the  *)
(* same row (same y) overlap horizontally, the two partners of one couple  *)
(* included.                                                               *)
C1_NoOverlapInRow ==
  Positioned =>
    \A p, q \in DOMAIN positions : p # q /\ SameRow(p, q) => ~Overlap(p, q)

(* C1, amended: two positioned people of the same row that belong to       *)
(* different units never overlap; the two partners of one couple unit are  *)
(* personWidth + coupleGap apart, so with the shipped coupleGap of -6 they *)
(* overlap by 6.                                                           *)
C1_NoOverlapAcrossUnits ==
  Positioned =>
    \A p, q \in DOMAIN positions :
      p # q /\ SameRow(p, q) =>
        IF SameUnit(p, q)
        THEN \/ positions[q].x = positions[p].x + personWidth + coupleGap
             \/ positions[p].x = positions[q].x + personWidth + coupleGap
        ELSE ~Overlap(p, q)

(* a layout with a whole couple and with people of two units in one row *)
C1_Witness ==
  /\ Positioned
  /\ \E p, q \in DOMAIN positions : p # q /\ SameUnit(p, q)
  /\ \E p, q \in DOMAIN positions : SameRow(p, q) /\ ~SameUnit(p, q)
  /\ hidden # {}

-----------------------------------------------------------------------------
(* C2: after calculateLayout() an id has a position exactly if it is       *)
(* visible (in data.people, not in data.hidden) and named by a unit of the *)
(* tree, that position lies in a unit naming the id, and no step threw.    *)
C2_PositionsExactlyVisibleNamed ==
  /\ Positioned =>
       /\ DOMAIN positions = VisibleIds \cap TreeIds
       /\ \A id \in DOMAIN positions :
            /\ positions[id].unitId \in UnitIds
            /\ id \in UnitPeople(positions[id].unitId)
  /\ ~threw

(* a finished run with a hidden id and an unknown id of the tree, and with *)
(* a visible person that has a position                                    *)
C2_Witness ==
  /\ pc = "done"
  /\ hidden \cap TreeIds # {}
  /\ TreeIds \ Range(dataPeople) # {}
  /\ DOMAIN positions # {}

-----------------------------------------------------------------------------
(* C5: every position has x >= 0 and y >= 0 and lies inside the canvas of  *)
(* renderFlatTree, and the children block of a unit never starts left of   *)
(* the unit's band.                                                        *)
C5_InsideCanvas ==
  /\ Positioned =>
       /\ \A id \in DOMAIN positions : positions[id].x >= 0 /\ positions[id].y >= 0
       /\ \A u \in DOMAIN unitBand :
            HasChildren(u) => unitBand[FirstChild(u)].x >= unitBand[u].x
  /\ Rendered =>
       \A id \in DOMAIN positions :
         /\ positions[id].x + personWidth <= canvas.width
         /\ positions[id].y + personHeight <= canvas.height

(* a rendered layout with a children block narrower than the band above it *)
C5_Witness ==
  /\ Rendered
  /\ \E u \in DOMAIN unitBand :
       /\ HasChildren(u)
       /\ unitBand[FirstChild(u)].x > unitBand[u].x
       /\ Placed(u) # {}
       /\ Placed(FirstChild(u)) # {}

-----------------------------------------------------------------------------
(* C6: for every unit with child units the center of its placed people,    *)
(* the center of its children block (from the first child's band start,    *)
(* childrenWidth wide, ending where the last child's band ends) and the    *)
(* center of its band are the same x. Stated on doubled coordinates.       *)
C6_Centering ==
  Positioned =>
    \A u \in DOMAIN unitBand :
      HasChildren(u) =>
        LET bandCenter2 == 2 * unitBand[u].x + widths[u].totalWidth
            xs == { positions[id].x : id \in Placed(u) }
        IN /\ 2 * unitBand[FirstChild(u)].x + widths[u].childrenWidth = bandCenter2
           /\ unitBand[FirstChild(u)].x + unitBand[LastChild(u)].x
                + widths[LastChild(u)].totalWidth = bandCenter2
           /\ xs # {} => MinOf(xs) + MaxOf(xs) + personWidth = bandCenter2

(* a couple, a single and a couple with one visible partner, each narrower *)
(* than its children block                                                 *)
C6_Witness ==
  /\ Positioned
  /\ \E u \in DOMAIN unitBand :
       /\ HasChildren(u) /\ widths[u].totalWidth > widths[u].selfWidth
       /\ Cardinality(Placed(u)) = 2
  /\ \E v \in DOMAIN unitBand :
       /\ HasChildren(v) /\ widths[v].totalWidth > widths[v].selfWidth
       /\ ~Units[v].hasPartners /\ Cardinality(Placed(v)) = 1
  /\ \E w \in DOMAIN unitBand :
       /\ HasChildren(w) /\ widths[w].totalWidth > widths[w].selfWidth
       /\ Len(Units[w].partners) = 2 /\ Cardinality(Placed(w)) = 1

-----------------------------------------------------------------------------
(* C9: after calculateWidths() every unit has selfWidth = 2 * personWidth  *)
(* + coupleGap if exactly two of its partners are visible and personWidth  *)
(* otherwise, childrenWidth = 0 if it is a leaf and otherwise the sum of   *)
(* its children's totalWidth plus siblingGap * (childCount - 1), and       *)
(* totalWidth = max(selfWidth, childrenWidth).                             *)
RECURSIVE SumTotals(_)
SumTotals(kids) ==
  IF kids = << >> THEN 0 ELSE widths[Head(kids)].totalWidth + SumTotals(Tail(kids))

C9_Widths ==
  WidthsSet =>
    /\ DOMAIN widths = UnitIds
    /\ \A u \in UnitIds :
         LET w == widths[u]
             kids == Units[u].childUnits
             visiblePartners == Range(Units[u].partners) \cap VisibleIds
         IN /\ w.selfWidth = IF Cardinality(visiblePartners) = 2
                             THEN 2 * personWidth + coupleGap
                             ELSE personWidth
            /\ w.childrenWidth = IF kids = << >> THEN 0
                                 ELSE SumTotals(kids) + siblingGap * (Len(kids) - 1)
            /\ w.totalWidth >= w.selfWidth
            /\ w.totalWidth >= w.childrenWidth
            /\ w.totalWidth \in {w.selfWidth, w.childrenWidth}

(* widths of a tree with a couple of one visible partner, a unit wider     *)
(* than its children and a unit narrower than its several children         *)
C9_Witness ==
  /\ pc = "widths"
  /\ \E u \in UnitIds :
       /\ Len(Units[u].partners) = 2
       /\ Cardinality(Range(Units[u].partners) \cap VisibleIds) = 1
  /\ \E v \in UnitIds :
       HasChildren(v) /\ widths[v].selfWidth > widths[v].childrenWidth
  /\ \E w \in UnitIds :
       Len(Units[w].childUnits) > 1 /\ widths[w].selfWidth < widths[w].childrenWidth

-----------------------------------------------------------------------------
(* C3, as stated: the parent anchor x of a connection with two resolved    *)
(* parents is the midpoint between the two partners' centers, and with one *)
(* resolved parent it is that parent's center. Stated on doubled           *)
(* coordinates for the two-parent case.                                    *)
C3_ParentAnchorIsMidpoint ==
  pc = "done" =>
    \A i \in DOMAIN drawn :
      drawn[i].type = "parent-child" =>
        LET parents == connections[i].parents
        IN /\ Len(parents) = 2 =>
                2 * drawn[i].parentCenterX
                  = (parents[1].x + personWidth \div 2) + (parents[2].x + personWidth \div 2)
           /\ Len(parents) = 1 =>
                drawn[i].parentCenterX = parents[1].x + personWidth \div 2

-----------------------------------------------------------------------------
(* C4, as stated: a unit all of whose people are hidden is skipped by the  *)
(* layout: it has no position, it adds nothing to its parent's             *)
(* childrenWidth and it does not advance the cursor of the row of roots.   *)
AllHidden(u) == UnitPeople(u) \subseteq hidden

KeptUnits(units) == LET kept(u) == ~AllHidden(u) IN SelectSeq(units, kept)

RECURSIVE SumKept(_)
SumKept(units) ==
  IF units = << >> THEN 0 ELSE widths[Head(units)].totalWidth + SumKept(Tail(units))

C4_HiddenUnitSkipped ==
  Positioned =>
    /\ \A u \in UnitIds : AllHidden(u) => Placed(u) = {}
    /\ \A u \in UnitIds :
         LET kept == KeptUnits(Units[u].childUnits)
         IN widths[u].childrenWidth =
              IF kept = << >> THEN 0
              ELSE SumKept(kept) + siblingGap * (Len(kept) - 1)
    /\ \A i \in DOMAIN Roots :
         ~AllHidden(Roots[i]) =>
           LET before == KeptUnits(SubSeq(Roots, 1, i - 1))
           IN unitBand[Roots[i]].x = padding + SumKept(before) + familyGap * Len(before)

-----------------------------------------------------------------------------
(* C7: calculateGenerations() terminates and leaves a generation for       *)
(* exactly the visible people: 0 for a root and for a person no root       *)
(* reaches, and otherwise the length of the shortest chain from a root     *)
(* along partner-to-visible-child edges; a hidden id never gets one.       *)
(* Termination: every iteration of the loop either visits one more person  *)
(* or leaves the visited set alone and shortens the queue.                 *)
IsChild(id) == \E f \in DOMAIN families : id \in Range(families[f].children)

RootIds == { id \in VisibleIds : ~IsChild(id) }

Edge(p, c) ==
  \E f \in DOMAIN families :
    p \in Range(families[f].partners) /\ c \in Range(families[f].children)

(* the depth of every person the frontier reaches, the frontier being at   *)
(* depth k                                                                 *)
RECURSIVE LevelGens(_, _, _)
LevelGens(frontier, seen, k) ==
  IF frontier = {} THEN << >>
  ELSE LET further == { c \in VisibleIds \ seen : \E p \in frontier : Edge(p, c) }
       IN [id \in frontier |-> k] @@ LevelGens(further, seen \cup further, k + 1)

ExpectedGenerations ==
  LET reached == LevelGens(RootIds, RootIds, 0)
  IN [id \in VisibleIds |-> IF id \in DOMAIN reached THEN reached[id] ELSE 0]

LoopProgress ==
  pc = "bfs" /\ queue # << >> =>
    \/ Cardinality(VisibleIds \ visited') < Cardinality(VisibleIds \ visited)
    \/ visited' = visited /\ Len(queue') < Len(queue)

C7_Generations ==
  /\ [](GenerationsSet => generations = ExpectedGenerations)
  /\ [](DOMAIN generations \subseteq VisibleIds)
  /\ [][LoopProgress]_vars

(* generations of a data set with a parent-child cycle below a root, whose *)
(* members are at depth 1 and 2                                            *)
C7_Witness ==
  /\ pc = "generations"
  /\ \E a, b \in VisibleIds :
       /\ a # b /\ Edge(a, b) /\ Edge(b, a)
       /\ generations[a] = 1 /\ generations[b] = 2

-----------------------------------------------------------------------------
(* C8: buildConnections() emits, in declaration order, one parent-child    *)
(* connection for every tuple that keeps a positioned parent and a         *)
(* positioned child and none for any other tuple; the records of a         *)
(* connection are the positions of the tuple's positioned ids, its style   *)
(* is the tuple's type, and the nephew link follows exactly when X1 and F7 *)
(* are both positioned.                                                    *)
PositionedOf(ids) == Range(ids) \cap DOMAIN positions

KeptTuples ==
  { i \in DOMAIN familyConnections :
      /\ PositionedOf(familyConnections[i].parents) # {}
      /\ PositionedOf(familyConnections[i].children) # {} }

KthKept(k) ==
  CHOOSE i \in KeptTuples : Cardinality({ j \in KeptTuples : j < i }) = k - 1

NephewDue == "X1" \in DOMAIN positions /\ "F7" \in DOMAIN positions

C8_Connections ==
  Connected =>
    LET n == Cardinality(KeptTuples)
    IN /\ Len(connections) = n + (IF NephewDue THEN 1 ELSE 0)
       /\ \A k \in 1..n :
            LET t == familyConnections[KthKept(k)]
                c == connections[k]
            IN /\ c.type = "parent-child"
               /\ c.style = t.type
               /\ Len(c.parents) = Cardinality(PositionedOf(t.parents))
               /\ \A id \in PositionedOf(t.parents) :
                    \E j \in DOMAIN c.parents : c.parents[j] = positions[id]
               /\ Len(c.children) = Cardinality(PositionedOf(t.children))
               /\ \A id \in PositionedOf(t.children) :
                    \E j \in DOMAIN c.children :
                      /\ c.children[j].id = id
                      /\ c.children[j].x = positions[id].x
                      /\ c.children[j].y = positions[id].y
                      /\ c.children[j].unitId = positions[id].unitId
       /\ NephewDue =>
            /\ connections[n + 1].type = "nephew"
            /\ connections[n + 1].from = positions["X1"]
            /\ connections[n + 1].to = positions["F7"]

(* connections of a layout that drops a tuple, thins another and keeps the *)
(* nephew link                                                             *)
C8_Witness ==
  /\ Connected
  /\ KeptTuples # {}
  /\ KeptTuples # DOMAIN familyConnections
  /\ \E i \in KeptTuples :
       PositionedOf(familyConnections[i].children) # Range(familyConnections[i].children)
  /\ NephewDue

-----------------------------------------------------------------------------
====
